---- MODULE Spec2Model ----
(***************************************************************************)
(* Two OpenAI-compatible adapter services: a text-to-speech service        *)
(* (piper-adapter/main.py) and a speech-to-text service                    *)
(* (revai-adapter/main.py).  Each selects one backend provider at startup  *)
(* and serves requests through it on a single asyncio event loop.          *)
(*                                                                         *)
(* Python strings whose characters matter (identifiers, voice names,       *)
(* request text, transcript words) are sequences of one-character strings, *)
(* so that lower(), strip() and join() are computed character by           *)
(* character.  Python's None is the value None below.                      *)
(***************************************************************************)
EXTENDS Integers, Sequences, FiniteSets, TLC

VARIABLES
  svc,         \* which service this process is: "tts" or "stt"
  env,         \* the environment variables os.getenv reads
  whichPiper,  \* what `which piper` does: "found", "notfound" or "error"
  voiceFiles,  \* the voices whose .onnx model exists in the voices directory
  started,     \* whether the startup event has run
  provider,    \* the module-level `provider`
  logged,      \* the errors startup logged
  req,         \* per request: the handler's position, locals and response
  files,       \* per request: its temporary WAV file ("absent" if none)
  proc,        \* per request: the piper child process it spawned
  loopHeldBy   \* the request whose blocking call holds the event loop, or 0

vars == <<svc, env, whichPiper, voiceFiles, started, provider, logged,
          req, files, proc, loopHeldBy>>

----------------------------------------------------------------------------
(* Strings *)

None == <<"None">>

UpperLetters == <<"A","B","C","D","E","F","G","H","I","J","K","L","M",
                  "N","O","P","Q","R","S","T","U","V","W","X","Y","Z">>
LowerLetters == <<"a","b","c","d","e","f","g","h","i","j","k","l","m",
                  "n","o","p","q","r","s","t","u","v","w","x","y","z">>

LowerChar(c) ==
  IF \E i \in 1..Len(UpperLetters) : UpperLetters[i] = c
  THEN LowerLetters[CHOOSE i \in 1..Len(UpperLetters) : UpperLetters[i] = c]
  ELSE c

\* str.lower()
lower(s) == [i \in 1..Len(s) |-> LowerChar(s[i])]

\* the characters str.strip() removes
Whitespace == {" ", "\t", "\n", "\r"}

RECURSIVE lstrip(_)
lstrip(s) == IF s # <<>> /\ Head(s) \in Whitespace THEN lstrip(Tail(s)) ELSE s

RECURSIVE rstrip(_)
rstrip(s) ==
  IF s # <<>> /\ s[Len(s)] \in Whitespace
  THEN rstrip(SubSeq(s, 1, Len(s) - 1)) ELSE s

\* str.strip()
strip(s) == rstrip(lstrip(s))

\* sep.join(parts)
RECURSIVE join(_, _)
join(sep, parts) ==
  IF parts = <<>> THEN <<>>
  ELSE IF Len(parts) = 1 THEN parts[1]
  ELSE parts[1] \o sep \o join(sep, Tail(parts))

\* bool(x) of an Optional[str]
bool(x) == x # None /\ x # <<>>

SeqToSet(q) == {q[i] : i \in 1..Len(q)}

s_piper == <<"p", "i", "p", "e", "r">>
s_kokoro == <<"k", "o", "k", "o", "r", "o">>
s_groq == <<"g", "r", "o", "q">>
s_revai == <<"r", "e", "v", "a", "i">>
s_deepgram == <<"d", "e", "e", "p", "g", "r", "a", "m">>
s_en_US_lessac_medium == <<"e", "n", "_", "U", "S", "-", "l", "e", "s", "s", "a", "c", "-", "m", "e", "d", "i", "u", "m">>
s_af_bella == <<"a", "f", "_", "b", "e", "l", "l", "a">>
s_Piper == <<"P", "i", "p", "e", "r">>
s_PIPER == <<"P", "I", "P", "E", "R">>
s_KoKoRo == <<"K", "o", "K", "o", "R", "o">>
s_espeak == <<"e", "s", "p", "e", "a", "k">>
s_whisper == <<"w", "h", "i", "s", "p", "e", "r">>
s_GROQ == <<"G", "R", "O", "Q">>
s_RevAI == <<"R", "e", "v", "A", "I">>
s_DeepGram == <<"D", "e", "e", "p", "G", "r", "a", "m">>
s_tok == <<"t", "o", "k">>
s_nova == <<"n", "o", "v", "a">>
s_NOVA == <<"N", "O", "V", "A">>
s_Shimmer == <<"S", "h", "i", "m", "m", "e", "r">>
s_af_heart == <<"a", "f", "_", "h", "e", "a", "r", "t">>
s_AF_HEART == <<"A", "F", "_", "H", "E", "A", "R", "T">>
s_bm_george == <<"b", "m", "_", "g", "e", "o", "r", "g", "e">>
s_en_GB_alan_low == <<"e", "n", "_", "G", "B", "-", "a", "l", "a", "n", "-", "l", "o", "w">>
s_robot == <<"r", "o", "b", "o", "t">>
s_whisper_large_v3_turbo == <<"w", "h", "i", "s", "p", "e", "r", "-", "l", "a", "r", "g", "e", "-", "v", "3", "-", "t", "u", "r", "b", "o">>
s_Hello == <<"H", "e", "l", "l", "o">>
s_world == <<"w", "o", "r", "l", "d">>
s_foo == <<"f", "o", "o">>
s_bar == <<"b", "a", "r">>
s_alloy == <<"a", "l", "l", "o", "y">>
s_echo == <<"e", "c", "h", "o">>
s_fable == <<"f", "a", "b", "l", "e">>
s_onyx == <<"o", "n", "y", "x">>
s_shimmer == <<"s", "h", "i", "m", "m", "e", "r">>
s_kokoro_sp == <<"k", "o", "k", "o", "r", "o", " ">>

s_af_alloy == <<"a", "f", "_", "a", "l", "l", "o", "y">>
s_am_echo == <<"a", "m", "_", "e", "c", "h", "o">>
s_bf_emma == <<"b", "f", "_", "e", "m", "m", "a">>
s_am_onyx == <<"a", "m", "_", "o", "n", "y", "x">>
s_af_nova == <<"a", "f", "_", "n", "o", "v", "a">>

----------------------------------------------------------------------------
(* Environment and providers *)

\* os.getenv(k, default)
getenv(e, k, default) == IF e[k] = None THEN default ELSE e[k]

EnvVars == {"TTS_PROVIDER", "REPLICATE_API_TOKEN", "KOKORO_DEFAULT_VOICE",
            "STT_PROVIDER", "GROQ_API_KEY", "REV_AI_ACCESS_TOKEN",
            "DEEPGRAM_API_KEY"}

\* Python None as the module-level `provider`
NoProvider == [cls |-> "None"]

PiperProvider(e) ==
  [cls |-> "PiperProvider"]

ReplicateKokoroProvider(e) ==
  [cls |-> "ReplicateKokoroProvider",
   api_token |-> e["REPLICATE_API_TOKEN"],
   default_voice |-> getenv(e, "KOKORO_DEFAULT_VOICE", s_af_bella)]

GroqProvider(e) ==
  [cls |-> "GroqProvider", api_key |-> e["GROQ_API_KEY"]]

RevAIProvider(e) ==
  [cls |-> "RevAIProvider", api_key |-> e["REV_AI_ACCESS_TOKEN"]]

DeepgramProvider(e) ==
  [cls |-> "DeepgramProvider", api_key |-> e["DEEPGRAM_API_KEY"]]

\* PiperProvider.is_configured: `which piper` returned 0; any exception is False
piper_is_configured(w) == w = "found"

token_is_configured_if_set(tok) == tok # None

\* is_configured of the credential providers
token_is_configured(tok) == bool(tok)

is_configured(p, w) ==
  CASE p.cls = "PiperProvider" -> piper_is_configured(w)
    [] p.cls = "ReplicateKokoroProvider" -> token_is_configured(p.api_token)
    [] p.cls \in {"GroqProvider", "RevAIProvider", "DeepgramProvider"} ->
         token_is_configured(p.api_key)

\* the `name` property, with the f-string's argument kept apart
name(p) ==
  CASE p.cls = "PiperProvider" -> <<"Piper">>
    [] p.cls = "ReplicateKokoroProvider" -> <<"Replicate Kokoro", p.default_voice>>
    [] p.cls = "GroqProvider" -> <<"Groq", s_whisper_large_v3_turbo>>
    [] p.cls = "RevAIProvider" -> <<"Rev.ai">>
    [] p.cls = "DeepgramProvider" -> <<"Deepgram">>

\* PROVIDERS.keys(), in the dict's order
TTS_PROVIDERS == <<s_piper, s_kokoro>>
STT_PROVIDERS == <<s_groq, s_revai, s_deepgram>>

PROVIDERS(s) == IF s = "tts" THEN TTS_PROVIDERS ELSE STT_PROVIDERS

\* PROVIDERS[provider_name]()
construct(provider_name, e) ==
  CASE provider_name = s_piper -> PiperProvider(e)
    [] provider_name = s_kokoro -> ReplicateKokoroProvider(e)
    [] provider_name = s_groq -> GroqProvider(e)
    [] provider_name = s_revai -> RevAIProvider(e)
    [] provider_name = s_deepgram -> DeepgramProvider(e)

configured_name_case_sensitive(s, e) ==
  IF s = "tts" THEN getenv(e, "TTS_PROVIDER", s_piper)
  ELSE getenv(e, "STT_PROVIDER", s_groq)

\* the identifier read from configuration and normalised
configured_name(s, e) ==
  IF s = "tts" THEN lower(getenv(e, "TTS_PROVIDER", s_piper))
  ELSE lower(getenv(e, "STT_PROVIDER", s_groq))

\* ValueError(f"..."): the f-string's literal text and its two arguments
ValueError(text, provider_name, available) ==
  [type |-> "ValueError", text |-> text, provider_name |-> provider_name,
   available |-> available]

unknown_provider_text(s) ==
  IF s = "tts" THEN "Unknown TTS provider: {provider_name}. Available: {available}"
  ELSE "Unknown STT provider: {provider_name}. Available: {available}"

not_configured_text(s) ==
  IF s = "tts" THEN "TTS provider '{provider_name}' is not configured. Check requirements."
  ELSE "STT provider '{provider_name}' is not configured. Check API key."

\* get_provider(): the provider, or the ValueError it raises
get_provider(s, e, w) ==
  LET provider_name == configured_name(s, e)
      p == construct(provider_name, e)
  IN IF provider_name \notin SeqToSet(PROVIDERS(s))
     THEN [raised |-> TRUE,
           error |-> ValueError(unknown_provider_text(s), provider_name,
                                join(<<",", " ">>, PROVIDERS(s)))]
     ELSE IF ~ is_configured(p, w)
     THEN [raised |-> TRUE,
           error |-> ValueError(not_configured_text(s), provider_name, <<>>)]
     ELSE [raised |-> FALSE, provider |-> p]

----------------------------------------------------------------------------
(* Voice mapping *)

\* PiperProvider.voice_map.get(k): None when k is no key
piper_voice_map(k) ==
  IF k \in {s_alloy, s_echo, s_fable, s_onyx, s_nova, s_shimmer}
  THEN s_en_US_lessac_medium ELSE None

\* PiperProvider._get_voice_path: the piper_voice it returns
piper_voice(voice) ==
  IF piper_voice_map(lower(voice)) # None
  THEN piper_voice_map(lower(voice)) ELSE voice

\* model_or_name: the model file's path when it exists, else the bare name
model_or_name(voice, vfiles) ==
  IF piper_voice(voice) \in vfiles
  THEN <<"path", piper_voice(voice)>> ELSE <<"name", piper_voice(voice)>>

\* ReplicateKokoroProvider.voice_map.get(k): None when k is no key
kokoro_voice_map(k) ==
  IF k = s_alloy THEN s_af_alloy ELSE
  IF k = s_echo THEN s_am_echo ELSE
  IF k = s_fable THEN s_bf_emma ELSE
  IF k = s_onyx THEN s_am_onyx ELSE
  IF k = s_nova THEN s_af_nova ELSE
  IF k = s_shimmer THEN s_af_bella ELSE None

available_voices ==
  << <<"a", "f", "_", "a", "l", "l", "o", "y">>,
     <<"a", "f", "_", "a", "o", "e", "d", "e">>,
     <<"a", "f", "_", "b", "e", "l", "l", "a">>,
     <<"a", "f", "_", "h", "e", "a", "r", "t">>,
     <<"a", "f", "_", "j", "e", "s", "s", "i", "c", "a">>,
     <<"a", "f", "_", "k", "o", "r", "e">>,
     <<"a", "f", "_", "n", "i", "c", "o", "l", "e">>,
     <<"a", "f", "_", "n", "o", "v", "a">>,
     <<"a", "f", "_", "r", "i", "v", "e", "r">>,
     <<"a", "f", "_", "s", "a", "r", "a", "h">>,
     <<"a", "f", "_", "s", "k", "y">>,
     <<"a", "m", "_", "a", "d", "a", "m">>,
     <<"a", "m", "_", "e", "c", "h", "o">>,
     <<"a", "m", "_", "e", "r", "i", "c">>,
     <<"a", "m", "_", "f", "e", "n", "r", "i", "r">>,
     <<"a", "m", "_", "l", "i", "a", "m">>,
     <<"a", "m", "_", "m", "i", "c", "h", "a", "e", "l">>,
     <<"a", "m", "_", "o", "n", "y", "x">>,
     <<"a", "m", "_", "p", "u", "c", "k">>,
     <<"a", "m", "_", "s", "a", "n", "t", "a">>,
     <<"b", "f", "_", "a", "l", "i", "c", "e">>,
     <<"b", "f", "_", "e", "m", "m", "a">>,
     <<"b", "f", "_", "i", "s", "a", "b", "e", "l", "l", "a">>,
     <<"b", "f", "_", "l", "i", "l", "y">>,
     <<"b", "m", "_", "d", "a", "n", "i", "e", "l">>,
     <<"b", "m", "_", "f", "a", "b", "l", "e">>,
     <<"b", "m", "_", "g", "e", "o", "r", "g", "e">>,
     <<"b", "m", "_", "l", "e", "w", "i", "s">>,
     <<"f", "f", "_", "s", "i", "w", "i", "s">>,
     <<"h", "f", "_", "a", "l", "p", "h", "a">>,
     <<"h", "f", "_", "b", "e", "t", "a">>,
     <<"h", "m", "_", "o", "m", "e", "g", "a">>,
     <<"h", "m", "_", "p", "s", "i">>,
     <<"i", "f", "_", "s", "a", "r", "a">>,
     <<"i", "m", "_", "n", "i", "c", "o", "l", "a">>,
     <<"j", "f", "_", "a", "l", "p", "h", "a">>,
     <<"j", "f", "_", "g", "o", "n", "g", "i", "t", "s", "u", "n", "e">>,
     <<"j", "m", "_", "k", "u", "m", "o">>,
     <<"p", "f", "_", "d", "o", "r", "a">>,
     <<"p", "m", "_", "a", "l", "e", "x">>,
     <<"p", "m", "_", "s", "a", "n", "t", "a">>,
     <<"z", "f", "_", "x", "i", "a", "o", "b", "e", "i">>,
     <<"z", "f", "_", "x", "i", "a", "o", "n", "i">>,
     <<"z", "f", "_", "x", "i", "a", "o", "x", "i", "a", "o">>,
     <<"z", "f", "_", "x", "i", "a", "o", "y", "i">>,
     <<"z", "m", "_", "y", "u", "n", "j", "i", "a", "n">>,
     <<"z", "m", "_", "y", "u", "n", "x", "i">>,
     <<"z", "m", "_", "y", "u", "n", "x", "i", "a">>,
     <<"z", "m", "_", "y", "u", "n", "y", "a", "n", "g">> >>

kokoro_voice_case_sensitive(p, voice) ==
  LET v == IF kokoro_voice_map(voice) # None
           THEN kokoro_voice_map(voice) ELSE voice
  IN IF v \notin SeqToSet(available_voices) THEN p.default_voice ELSE v

\* the kokoro_voice sent to the backend
kokoro_voice(p, voice) ==
  LET v == IF kokoro_voice_map(lower(voice)) # None
           THEN kokoro_voice_map(lower(voice)) ELSE voice
  IN IF v \notin SeqToSet(available_voices) THEN p.default_voice ELSE v

----------------------------------------------------------------------------
(* Rev.ai transcript *)

\* " ".join(element["value"] for monolog in monologues
\*          for element in monolog["elements"] if element["type"] == "text")
RECURSIVE text_values_unfiltered(_)
text_values_unfiltered(elements) ==
  IF elements = <<>> THEN <<>>
  ELSE <<Head(elements).value>> \o text_values_unfiltered(Tail(elements))

RECURSIVE text_values(_)
text_values(elements) ==
  IF elements = <<>> THEN <<>>
  ELSE (IF Head(elements).type = "text" THEN <<Head(elements).value>> ELSE <<>>)
       \o text_values(Tail(elements))

RECURSIVE all_text_values(_)
all_text_values(monologues) ==
  IF monologues = <<>> THEN <<>>
  ELSE text_values(Head(monologues)) \o all_text_values(Tail(monologues))

extract_text(monologues) == join(<<" ">>, all_text_values(monologues))

----------------------------------------------------------------------------
(* Bounds and inputs *)

\* concurrent requests of one process
MaxReqs == 2
\* non-terminal answers a backend gives to the status polls of one job
MaxPending == 2

Reqs == 1..MaxReqs

KOKORO_POLL_INTERVAL_MS == 500
REVAI_POLL_INTERVAL_MS == 1000

KokoroTerminal == {"succeeded", "failed", "canceled"}
KokoroStatuses == {"starting", "processing"} \cup KokoroTerminal
RevaiTerminal == {"transcribed", "failed"}
RevaiStatuses == {"in_progress"} \cup RevaiTerminal

\* what a backend may answer to a submission: its status code and body
BackendResponses ==
  { [status_code |-> 200, text |-> "ok"],
    [status_code |-> 201, text |-> "created"],
    [status_code |-> 202, text |-> "accepted"],
    [status_code |-> 401, text |-> "unauthenticated"],
    [status_code |-> 503, text |-> "unavailable"] }

El(t, v) == [type |-> t, value |-> v]

Transcripts ==
  { <<>>,
    << <<El("text", s_Hello), El("punct", <<" ">>), El("text", s_world)>>,
       <<El("text", s_foo), El("text", s_bar)>> >> }

----------------------------------------------------------------------------
(* Requests *)

NoResp == [status_code |-> 0]

NewReq ==
  [pc |-> "idle", kind |-> "none", input |-> <<>>, voice |-> <<>>,
   called |-> FALSE, backend_voice |-> None, model_arg |-> None,
   upstream |-> [status_code |-> 0, text |-> ""],
   poll_count |-> 0, sleeps |-> <<>>, pending |-> 0, terminal_at |-> 0,
   status |-> "none", fetched |-> FALSE, transcript |-> <<>>,
   raised |-> "none", resp |-> NoResp]

\* raise HTTPException(status_code, detail), as the response FastAPI sends
HTTPException(status_code, detail) ==
  [status_code |-> status_code, detail |-> detail]

\* `except Exception as e: raise HTTPException(status_code=500, detail=str(e))`
unexpected_exception(e) == HTTPException(500, e)

\* a request's handler ends with `response`, its provider having raised `why`
finish(rq, why, response) ==
  [rq EXCEPT !.pc = "done", !.raised = why, !.resp = response]

\* the response of both handlers when the module-level provider is None
not_configured_response(s) ==
  IF s = "tts"
  THEN HTTPException(500, "No TTS provider configured. Set TTS_PROVIDER and required configuration.")
  ELSE HTTPException(500, "No STT provider configured. Set STT_PROVIDER and required API key.")

speech_precheck_no_strip(p, input) ==
  IF p = NoProvider THEN "not_configured"
  ELSE IF ~ bool(input) THEN "invalid"
  ELSE "delegate"

\* create_speech's checks before it delegates, in the handler's order
speech_precheck(p, input) ==
  IF p = NoProvider THEN "not_configured"
  ELSE IF ~ bool(input) \/ ~ bool(strip(input)) THEN "invalid"
  ELSE "delegate"

transcription_precheck_unchecked(p) == "delegate"

\* create_transcription's check before it delegates
transcription_precheck(p) ==
  IF p = NoProvider THEN "not_configured" ELSE "delegate"

\* the "status" field of GET /health
tts_health_status(p) == IF p # NoProvider THEN "healthy" ELSE "degraded"
stt_health_status(p) == "healthy"

health_body(s, p, w) ==
  [status |-> IF s = "tts" THEN tts_health_status(p) ELSE stt_health_status(p),
   provider |-> IF p # NoProvider THEN name(p) ELSE None,
   provider_configured |-> IF p # NoProvider THEN is_configured(p, w) ELSE FALSE]

providers_body_active_only(s, p, e, w) ==
  [current |-> IF p # NoProvider THEN name(p) ELSE None,
   available |-> [k \in SeqToSet(PROVIDERS(s)) |->
                    [name |-> name(construct(k, e)),
                     configured |-> p # NoProvider /\ construct(k, e) = p]]]

providers_body(s, p, e, w) ==
  [current |-> IF p # NoProvider THEN name(p) ELSE None,
   available |-> [k \in SeqToSet(PROVIDERS(s)) |->
                    [name |-> name(construct(k, e)),
                     configured |-> is_configured(construct(k, e), w)]]]

models_body(p) ==
  [data |-> << [id |-> "tts-1", owned_by |-> IF p # NoProvider THEN name(p) ELSE <<"unknown">>],
               [id |-> "tts-1-hd", owned_by |-> IF p # NoProvider THEN name(p) ELSE <<"unknown">>] >>]

\* get_voices(): the ids listed (Piper: the *.onnx files of the voices directory)
get_voices(p, vfiles) ==
  IF p.cls = "PiperProvider" THEN vfiles ELSE SeqToSet(available_voices)

voices_body(p, vfiles) ==
  IF p = NoProvider THEN [voices |-> {}, provider |-> None]
  ELSE [voices |-> get_voices(p, vfiles), provider |-> name(p)]

kokoro_loop_ends_unless_starting(status) == status # "starting"
revai_loop_ends_on_success_only(status) == status = "transcribed"

\* whether the polling loop leaves on this status (return or raise)
kokoro_loop_ends(status) == status \in {"succeeded", "failed", "canceled"}
revai_loop_ends(status) == status \in {"transcribed", "failed"}

\* the exception the Kokoro loop raises on a terminal failure status
kokoro_failure(status) ==
  IF status = "failed" THEN HTTPException(500, "TTS failed: error")
  ELSE HTTPException(500, "TTS prediction was canceled")

revai_failure == HTTPException(500, "Rev.ai transcription failed")

\* the exception raised for a submission the backend did not accept
upstream_failure(b) == HTTPException(b.status_code, b.text)

\* the status code each backend's submission must answer with
kokoro_accepted(b) == b.status_code = 201
stt_accepted(b) == b.status_code = 200

\* one more status poll, answered with `st`; `terminal` is the backend's own
\* view of st: pending counts its non-terminal answers, terminal_at is the poll
\* that received its first terminal answer
polled(rq, st, terminal) ==
  [rq EXCEPT !.poll_count = @ + 1, !.status = st,
             !.pending = IF terminal THEN @ ELSE @ + 1,
             !.terminal_at = IF terminal /\ @ = 0 THEN rq.poll_count + 1 ELSE @]

\* what a backend may answer to the next status poll of a job: a job that
\* reached a terminal status keeps it
may_answer(rq, st, terminal) ==
  /\ rq.terminal_at # 0 => st = rq.status
  /\ ~ terminal => rq.pending < MaxPending

Service == <<svc, env, whichPiper, voiceFiles, started, provider, logged>>

----------------------------------------------------------------------------
(* Startup *)

startup ==
  /\ ~ started
  /\ started' = TRUE
  /\ LET g == get_provider(svc, env, whichPiper)
     IN IF g.raised
        THEN /\ provider' = provider
             /\ logged' = Append(logged, g.error)
        ELSE /\ provider' = g.provider
             /\ logged' = logged
  /\ UNCHANGED <<svc, env, whichPiper, voiceFiles, req, files, proc, loopHeldBy>>

\* a handler runs on the event loop, which a blocking call of another keeps
CanRun(r) == started /\ loopHeldBy \in {0, r}

----------------------------------------------------------------------------
(* TTS: POST /v1/audio/speech *)

create_speech(r, input, voice) ==
  /\ svc = "tts" /\ CanRun(r) /\ req[r].pc = "idle"
  /\ LET rq == [req[r] EXCEPT !.kind = "speech", !.input = input, !.voice = voice]
         go == speech_precheck(provider, input)
     IN \/ /\ go = "not_configured"
           /\ req' = [req EXCEPT ![r] = finish(rq, "none", not_configured_response("tts"))]
           /\ UNCHANGED <<files, proc, loopHeldBy>>
        \/ /\ go = "invalid"
           /\ req' = [req EXCEPT ![r] =
                        finish(rq, "none", HTTPException(400, "Input text is required"))]
           /\ UNCHANGED <<files, proc, loopHeldBy>>
        \/ \* PiperProvider.synthesize: temp file created, Popen succeeded
           /\ go = "delegate" /\ provider.cls = "PiperProvider"
           /\ req' = [req EXCEPT ![r] =
                        [rq EXCEPT !.pc = "communicate", !.called = TRUE,
                                   !.backend_voice = piper_voice(voice),
                                   !.model_arg = model_or_name(voice, voiceFiles)]]
           /\ files' = [files EXCEPT ![r] = "empty"]
           /\ proc' = [proc EXCEPT ![r] = "running"]
           /\ loopHeldBy' = r
        \/ \* PiperProvider.synthesize: Popen raised; finally unlinks the temp file
           /\ go = "delegate" /\ provider.cls = "PiperProvider"
           /\ req' = [req EXCEPT ![r] =
                        finish([rq EXCEPT !.called = TRUE,
                                          !.backend_voice = piper_voice(voice),
                                          !.model_arg = model_or_name(voice, voiceFiles)],
                               "exception", unexpected_exception("OSError"))]
           /\ UNCHANGED <<files, proc, loopHeldBy>>
        \/ \* ReplicateKokoroProvider.synthesize up to `await client.post`
           /\ go = "delegate" /\ provider.cls = "ReplicateKokoroProvider"
           /\ req' = [req EXCEPT ![r] =
                        [rq EXCEPT !.pc = "submit", !.called = TRUE,
                                   !.backend_voice = kokoro_voice(provider, voice)]]
           /\ UNCHANGED <<files, proc, loopHeldBy>>
  /\ UNCHANGED Service

\* the temp file after `finally: if os.path.exists(tmp_path): os.unlink(tmp_path)`
unlinked(fs, r) == [fs EXCEPT ![r] = "absent"]

\* the piper executable writes its --output_file
piper_writes(r) ==
  /\ proc[r] = "running" /\ files[r] # "wav"
  /\ files' = [files EXCEPT ![r] = "wav"]
  /\ UNCHANGED <<req, proc, loopHeldBy>>
  /\ UNCHANGED Service

\* the piper executable exits
piper_exits(r, code) ==
  /\ proc[r] = "running"
  /\ proc' = [proc EXCEPT ![r] = code]
  /\ UNCHANGED <<req, files, loopHeldBy>>
  /\ UNCHANGED Service

\* process.communicate(timeout=120) returns after the executable exited
communicate_returns(r) ==
  /\ req[r].pc = "communicate" /\ proc[r] \in {"exit0", "exit1"}
  /\ req' = [req EXCEPT ![r] =
               IF proc[r] = "exit1"
               THEN finish(@, "exit", HTTPException(500, "TTS failed: stderr"))
               ELSE IF files[r] = "absent"
               THEN finish(@, "exception", unexpected_exception("FileNotFoundError"))
               ELSE finish(@, "none", [status_code |-> 200, content |-> files[r]])]
  /\ files' = unlinked(files, r)
  /\ loopHeldBy' = 0
  /\ UNCHANGED proc
  /\ UNCHANGED Service

\* process.communicate(timeout=120) raises TimeoutExpired; the child runs on
communicate_timeout(r) ==
  /\ req[r].pc = "communicate" /\ proc[r] = "running"
  /\ req' = [req EXCEPT ![r] =
               finish(@, "exception", unexpected_exception("TimeoutExpired"))]
  /\ files' = unlinked(files, r)
  /\ loopHeldBy' = 0
  /\ UNCHANGED proc
  /\ UNCHANGED Service

\* the answer to the Kokoro submission POST
kokoro_post_response(r, b) ==
  /\ CanRun(r) /\ req[r].pc = "submit" /\ provider.cls = "ReplicateKokoroProvider"
  /\ req' = [req EXCEPT ![r] =
               IF ~ kokoro_accepted(b)
               THEN finish([@ EXCEPT !.upstream = b], "upstream", upstream_failure(b))
               ELSE [@ EXCEPT !.upstream = b, !.pc = "poll"]]
  /\ UNCHANGED <<files, proc, loopHeldBy>>
  /\ UNCHANGED Service

\* the answer to one status GET of the Kokoro polling loop
kokoro_poll_response(r, st) ==
  /\ CanRun(r) /\ req[r].pc = "poll" /\ provider.cls = "ReplicateKokoroProvider"
  /\ may_answer(req[r], st, st \in KokoroTerminal)
  /\ LET rq == polled(req[r], st, st \in KokoroTerminal)
     IN req' = [req EXCEPT ![r] =
                  IF ~ kokoro_loop_ends(st)
                  THEN [rq EXCEPT !.pc = "sleep",
                                  !.sleeps = Append(@, KOKORO_POLL_INTERVAL_MS)]
                  ELSE IF st = "succeeded" THEN [rq EXCEPT !.pc = "download"]
                  ELSE finish(rq, st, kokoro_failure(st))]
  /\ UNCHANGED <<files, proc, loopHeldBy>>
  /\ UNCHANGED Service

\* asyncio.sleep returns and the loop issues the next status GET
sleep_done(r) ==
  /\ CanRun(r) /\ req[r].pc = "sleep"
  /\ req' = [req EXCEPT ![r].pc = "poll"]
  /\ UNCHANGED <<files, proc, loopHeldBy>>
  /\ UNCHANGED Service

\* the answer to the GET of the prediction's output URL
kokoro_download_response(r, code) ==
  /\ CanRun(r) /\ req[r].pc = "download"
  /\ req' = [req EXCEPT ![r] =
               IF code # 200
               THEN finish([@ EXCEPT !.fetched = TRUE], "download",
                           HTTPException(500, "Failed to download audio"))
               ELSE finish([@ EXCEPT !.fetched = TRUE], "none",
                           [status_code |-> 200, content |-> "wav"])]
  /\ UNCHANGED <<files, proc, loopHeldBy>>
  /\ UNCHANGED Service

\* an awaited HTTP call raises (transport error, client timeout, bad JSON)
await_raises(r) ==
  /\ CanRun(r) /\ req[r].pc \in {"submit", "poll", "download", "transcript"}
  /\ req' = [req EXCEPT ![r] =
               finish(@, "exception", unexpected_exception("httpx error"))]
  /\ UNCHANGED <<files, proc, loopHeldBy>>
  /\ UNCHANGED Service

----------------------------------------------------------------------------
(* STT: POST /v1/audio/transcriptions *)

create_transcription(r) ==
  /\ svc = "stt" /\ CanRun(r) /\ req[r].pc = "idle"
  /\ LET rq == [req[r] EXCEPT !.kind = "transcription"]
     IN req' = [req EXCEPT ![r] =
                  IF transcription_precheck(provider) = "not_configured"
                  THEN finish(rq, "none", not_configured_response("stt"))
                  ELSE [rq EXCEPT !.pc = "submit", !.called = TRUE]]
  /\ UNCHANGED <<files, proc, loopHeldBy>>
  /\ UNCHANGED Service

\* the answer to the single POST of GroqProvider.transcribe
groq_post_response(r, b, text) ==
  /\ CanRun(r) /\ req[r].pc = "submit" /\ provider.cls = "GroqProvider"
  /\ req' = [req EXCEPT ![r] =
               IF ~ stt_accepted(b)
               THEN finish([@ EXCEPT !.upstream = b], "upstream", upstream_failure(b))
               ELSE finish([@ EXCEPT !.upstream = b], "none",
                           [status_code |-> 200, text |-> text])]
  /\ UNCHANGED <<files, proc, loopHeldBy>>
  /\ UNCHANGED Service

\* the answer to the single POST of DeepgramProvider.transcribe
deepgram_post_response(r, b, text) ==
  /\ CanRun(r) /\ req[r].pc = "submit" /\ provider.cls = "DeepgramProvider"
  /\ req' = [req EXCEPT ![r] =
               IF ~ stt_accepted(b)
               THEN finish([@ EXCEPT !.upstream = b], "upstream", upstream_failure(b))
               ELSE finish([@ EXCEPT !.upstream = b], "none",
                           [status_code |-> 200, text |-> text])]
  /\ UNCHANGED <<files, proc, loopHeldBy>>
  /\ UNCHANGED Service

\* the answer to the Rev.ai job submission POST
revai_post_response(r, b) ==
  /\ CanRun(r) /\ req[r].pc = "submit" /\ provider.cls = "RevAIProvider"
  /\ req' = [req EXCEPT ![r] =
               IF ~ stt_accepted(b)
               THEN finish([@ EXCEPT !.upstream = b], "upstream", upstream_failure(b))
               ELSE [@ EXCEPT !.upstream = b, !.pc = "poll"]]
  /\ UNCHANGED <<files, proc, loopHeldBy>>
  /\ UNCHANGED Service

\* the answer to one status GET of the Rev.ai polling loop
revai_poll_response(r, st) ==
  /\ CanRun(r) /\ req[r].pc = "poll" /\ provider.cls = "RevAIProvider"
  /\ may_answer(req[r], st, st \in RevaiTerminal)
  /\ LET rq == polled(req[r], st, st \in RevaiTerminal)
     IN req' = [req EXCEPT ![r] =
                  IF ~ revai_loop_ends(st)
                  THEN [rq EXCEPT !.pc = "sleep",
                                  !.sleeps = Append(@, REVAI_POLL_INTERVAL_MS)]
                  ELSE IF st = "transcribed" THEN [rq EXCEPT !.pc = "transcript"]
                  ELSE finish(rq, st, revai_failure)]
  /\ UNCHANGED <<files, proc, loopHeldBy>>
  /\ UNCHANGED Service

\* the answer to the GET of the job's transcript
revai_transcript_response(r, monologues) ==
  /\ CanRun(r) /\ req[r].pc = "transcript"
  /\ req' = [req EXCEPT ![r] =
               finish([@ EXCEPT !.fetched = TRUE, !.transcript = monologues], "none",
                      [status_code |-> 200, text |-> extract_text(monologues)])]
  /\ UNCHANGED <<files, proc, loopHeldBy>>
  /\ UNCHANGED Service

----------------------------------------------------------------------------
(* GET handlers *)

answer_reselecting(r, kind, body) ==
  /\ CanRun(r) /\ req[r].pc = "idle"
  /\ req' = [req EXCEPT ![r] =
               finish([@ EXCEPT !.kind = kind], "none",
                      [status_code |-> 200, body |-> body])]
  /\ provider' = IF configured_name(svc, env) \in SeqToSet(PROVIDERS(svc))
                 THEN construct(configured_name(svc, env), env) ELSE provider
  /\ UNCHANGED <<files, proc, loopHeldBy>>
  /\ UNCHANGED <<svc, env, whichPiper, voiceFiles, started, logged>>

answer(r, kind, body) ==
  /\ CanRun(r) /\ req[r].pc = "idle"
  /\ req' = [req EXCEPT ![r] =
               finish([@ EXCEPT !.kind = kind], "none",
                      [status_code |-> 200, body |-> body])]
  /\ UNCHANGED <<files, proc, loopHeldBy>>
  /\ UNCHANGED Service

health_check(r) ==
  /\ svc \in {"tts", "stt"}
  /\ answer(r, "health", health_body(svc, provider, whichPiper))

list_providers(r) ==
  /\ svc \in {"tts", "stt"}
  /\ answer(r, "providers", providers_body(svc, provider, env, whichPiper))

list_models(r) ==
  /\ svc = "tts"
  /\ answer(r, "models", models_body(provider))

list_voices(r) ==
  /\ svc = "tts"
  /\ answer(r, "voices", voices_body(provider, voiceFiles))

----------------------------------------------------------------------------
(* Specifications *)

EnvOf(s, prov, creds) ==
  [k \in EnvVars |->
     IF k = "TTS_PROVIDER" /\ s = "tts" THEN prov
     ELSE IF k = "STT_PROVIDER" /\ s = "stt" THEN prov
     ELSE IF k \in DOMAIN creds THEN creds[k] ELSE None]

InitWith(svcs, ttsEnvs, sttEnvs, whiches, vfileSets) ==
  /\ svc \in svcs
  /\ env \in (IF svc = "tts" THEN ttsEnvs ELSE sttEnvs)
  /\ whichPiper \in (IF svc = "tts" THEN whiches ELSE {"notfound"})
  /\ voiceFiles \in (IF svc = "tts" THEN vfileSets ELSE {{}})
  /\ started = FALSE
  /\ provider = NoProvider
  /\ logged = <<>>
  /\ req = [r \in Reqs |-> NewReq]
  /\ files = [r \in Reqs |-> "absent"]
  /\ proc = [r \in Reqs |-> "none"]
  /\ loopHeldBy = 0

\* a process of either service with a few configurations, serving requests
TtsEnvs ==
  {EnvOf("tts", n, [REPLICATE_API_TOKEN |-> t]) :
     n \in {None, s_KoKoRo, s_espeak}, t \in {None, s_tok}}
SttEnvs ==
  {EnvOf("stt", n, [GROQ_API_KEY |-> t, REV_AI_ACCESS_TOKEN |-> t,
                    DEEPGRAM_API_KEY |-> t]) :
     n \in {None, s_revai, s_DeepGram, s_whisper}, t \in {None, s_tok}}

Inputs == {<<>>, <<" ", "\n">>, <<"h", "i">>}
Voices == {s_nova}
Texts == {<<>>, s_Hello}

Init == InitWith({"tts", "stt"}, TtsEnvs, SttEnvs, {"found", "notfound"}, {{}})

Next ==
  \/ startup
  \/ \E r \in Reqs, input \in Inputs, voice \in Voices : create_speech(r, input, voice)
  \/ \E r \in Reqs : piper_writes(r)
  \/ \E r \in Reqs, code \in {"exit0", "exit1"} : piper_exits(r, code)
  \/ \E r \in Reqs : communicate_returns(r)
  \/ \E r \in Reqs : communicate_timeout(r)
  \/ \E r \in Reqs, b \in BackendResponses : kokoro_post_response(r, b)
  \/ \E r \in Reqs, st \in KokoroStatuses : kokoro_poll_response(r, st)
  \/ \E r \in Reqs : sleep_done(r)
  \/ \E r \in Reqs, code \in {200, 404} : kokoro_download_response(r, code)
  \/ \E r \in Reqs : await_raises(r)
  \/ \E r \in Reqs : create_transcription(r)
  \/ \E r \in Reqs, b \in BackendResponses, t \in Texts : groq_post_response(r, b, t)
  \/ \E r \in Reqs, b \in BackendResponses, t \in Texts : deepgram_post_response(r, b, t)
  \/ \E r \in Reqs, b \in BackendResponses : revai_post_response(r, b)
  \/ \E r \in Reqs, st \in RevaiStatuses : revai_poll_response(r, st)
  \/ \E r \in Reqs, m \in Transcripts : revai_transcript_response(r, m)
  \/ \E r \in Reqs : health_check(r)
  \/ \E r \in Reqs : list_providers(r)
  \/ \E r \in Reqs : list_models(r)
  \/ \E r \in Reqs : list_voices(r)

Spec == Init /\ [][Next]_vars

\* provider selection over many configurations, with GET traffic only
SelectTtsEnvs ==
  {EnvOf("tts", n, [REPLICATE_API_TOKEN |-> t]) :
     n \in {None, <<>>, s_piper, s_Piper, s_PIPER, s_kokoro, s_KoKoRo,
            s_kokoro_sp, s_espeak, s_groq},
     t \in {None, <<>>, s_tok}}
SelectSttEnvs ==
  {EnvOf("stt", n, [GROQ_API_KEY |-> g, REV_AI_ACCESS_TOKEN |-> v,
                    DEEPGRAM_API_KEY |-> d]) :
     n \in {None, <<>>, s_groq, s_GROQ, s_revai, s_RevAI, s_deepgram,
            s_DeepGram, s_whisper, s_piper},
     g \in {None, <<>>, s_tok}, v \in {None, <<>>, s_tok}, d \in {None, <<>>, s_tok}}

InitSelect ==
  InitWith({"tts", "stt"}, SelectTtsEnvs, SelectSttEnvs,
           {"found", "notfound", "error"}, {{}})

NextSelect ==
  \/ startup
  \/ \E r \in Reqs : health_check(r)
  \/ \E r \in Reqs : list_providers(r)

SpecSelect == InitSelect /\ [][NextSelect]_vars

\* one speech request over many texts and voices
MaxLen == 2

RECURSIVE StringsUpTo(_, _)
StringsUpTo(chars, n) ==
  IF n = 0 THEN {<<>>}
  ELSE StringsUpTo(chars, n - 1)
       \cup {Append(x, c) : x \in StringsUpTo(chars, n - 1), c \in chars}

SpeechInputs == StringsUpTo({" ", "\t", "a"}, MaxLen)
SpeechVoices == {s_nova, s_NOVA, s_Shimmer, s_fable, s_af_heart, s_AF_HEART,
                 s_en_GB_alan_low, s_robot, <<>>}

SpeechTtsEnvs ==
  {EnvOf("tts", n, [REPLICATE_API_TOKEN |-> s_tok, KOKORO_DEFAULT_VOICE |-> d]) :
     n \in {None, s_kokoro, s_espeak}, d \in {None, s_bm_george, s_robot}}

InitSpeech ==
  InitWith({"tts"}, SpeechTtsEnvs, {}, {"found"}, {{}, {s_en_US_lessac_medium}})

NextSpeech ==
  \/ startup
  \/ \E input \in SpeechInputs, voice \in SpeechVoices : create_speech(1, input, voice)
  \/ piper_writes(1)
  \/ \E code \in {"exit0", "exit1"} : piper_exits(1, code)
  \/ communicate_returns(1)
  \/ communicate_timeout(1)
  \/ \E b \in BackendResponses : kokoro_post_response(1, b)
  \/ \E st \in KokoroStatuses : kokoro_poll_response(1, st)
  \/ sleep_done(1)
  \/ \E code \in {200, 404} : kokoro_download_response(1, code)
  \/ await_raises(1)

SpecSpeech == InitSpeech /\ [][NextSpeech]_vars

----------------------------------------------------------------------------
(* Claims *)

Done(r) == req[r].pc = "done"

\* C1: in both services, a health answer given while no provider is active
\* says status "degraded", provider none and provider_configured false, and a
\* health answer says "healthy" only while a provider is active.
C1_HealthDegradedWithoutProvider ==
  \A r \in Reqs :
    (Done(r) /\ req[r].kind = "health") =>
      /\ provider = NoProvider =>
            /\ req[r].resp.body.status = "degraded"
            /\ req[r].resp.body.provider = None
            /\ req[r].resp.body.provider_configured = FALSE
      /\ req[r].resp.body.status = "healthy" => provider # NoProvider

IsDelegating(r) == req[r].kind \in {"speech", "transcription"}

\* C2 as stated: a speech or transcription request that arrives while no
\* provider is active is answered 503 and no provider operation is called.
C2_NotConfiguredIs503 ==
  \A r \in Reqs :
    (IsDelegating(r) /\ provider = NoProvider) =>
      /\ ~ req[r].called
      /\ Done(r) => req[r].resp.status_code = 503

\* C2: a speech or transcription request that arrives while no provider is
\* active is answered 500 with the "No ... provider configured" detail, and
\* no provider operation is called, no subprocess started, no job polled.
C2_NotConfiguredIs500 ==
  \A r \in Reqs :
    (IsDelegating(r) /\ provider = NoProvider) =>
      /\ ~ req[r].called
      /\ proc[r] = "none" /\ req[r].poll_count = 0
      /\ Done(r)
      /\ req[r].resp.status_code = 500
      /\ req[r].resp.detail \in
           {"No TTS provider configured. Set TTS_PROVIDER and required configuration.",
            "No STT provider configured. Set STT_PROVIDER and required API key."}

C2_Witness ==
  \E r \in Reqs :
    /\ req[r].kind = "transcription" /\ provider = NoProvider /\ Done(r)
    /\ \E q \in Reqs : req[q].kind = "health" /\ Done(q)

IsBlank(text) == \A i \in 1..Len(text) : text[i] \in Whitespace

\* C3 as stated: every speech request whose input is empty or only whitespace
\* is answered 400 and synthesize is not called, whatever the service's state.
C3_BlankInputIs400 ==
  \A r \in Reqs :
    (req[r].kind = "speech" /\ IsBlank(req[r].input)) =>
      /\ ~ req[r].called
      /\ Done(r) => req[r].resp.status_code = 400

\* C3: a speech request whose input is empty or only whitespace never reaches
\* synthesize; it is answered 400 when a provider is active, and with the
\* not-configured answer (500) when none is, that check coming first.
C3_BlankInputRejected ==
  \A r \in Reqs :
    (req[r].kind = "speech" /\ IsBlank(req[r].input)) =>
      /\ ~ req[r].called
      /\ proc[r] = "none" /\ files[r] = "absent" /\ req[r].poll_count = 0
      /\ Done(r)
      /\ req[r].resp.status_code = (IF provider = NoProvider THEN 500 ELSE 400)
      /\ provider # NoProvider => req[r].resp.detail = "Input text is required"

C3_Witness ==
  /\ provider # NoProvider
  /\ req[1].kind = "speech" /\ Done(1)
  /\ Len(req[1].input) = MaxLen /\ IsBlank(req[1].input)
  /\ req[1].resp.status_code = 400

IsPiperCall(r) ==
  req[r].kind = "speech" /\ req[r].called /\ provider.cls = "PiperProvider"

\* C4: once a Piper synthesize call has ended (return, non-zero exit or the
\* 120 s timeout), the temporary WAV file of that call does not exist, in any
\* later state, also when the executable is still running and writes later.
C4_NoTempFileAfterCall ==
  \A r \in Reqs : (IsPiperCall(r) /\ Done(r)) => files[r] = "absent"

IsJob(r) == req[r].poll_count > 0 \/ req[r].pc \in {"poll", "sleep"}

Interval ==
  IF svc = "tts" THEN KOKORO_POLL_INTERVAL_MS ELSE REVAI_POLL_INTERVAL_MS

SuccessStatus == IF svc = "tts" THEN "succeeded" ELSE "transcribed"

\* C5: for both async providers, a job whose status polls were answered N
\* times with a non-terminal status and then with the success status has been
\* polled exactly N+1 times, with one sleep of the fixed interval after each
\* of the N non-terminal answers; the result is fetched only after the success
\* answer; and the loop never stops on a non-terminal answer.
C5_PollsUntilSuccess ==
  \A r \in Reqs :
    IsJob(r) =>
      /\ req[r].status = SuccessStatus =>
            /\ req[r].poll_count = req[r].pending + 1
            /\ req[r].sleeps = [i \in 1..req[r].pending |-> Interval]
            /\ req[r].pc \in {"download", "transcript", "done"}
      /\ req[r].pc \in {"poll", "sleep"} =>
            /\ req[r].poll_count = req[r].pending
            /\ req[r].sleeps = [i \in 1..req[r].pending |-> Interval]
      /\ (req[r].fetched \/ req[r].pc \in {"download", "transcript"}) =>
            req[r].status = SuccessStatus
      /\ (Done(r) /\ req[r].raised # "exception") => req[r].terminal_at # 0

C5_Witness ==
  \E r \in Reqs :
    /\ Done(r) /\ req[r].fetched /\ req[r].resp.status_code = 200
    /\ req[r].pending = MaxPending /\ req[r].poll_count = MaxPending + 1
    /\ Len(req[r].sleeps) = MaxPending

\* C6: for both async providers, once a status poll was answered with a
\* terminal failure status ("failed", or "canceled" for Kokoro) the provider
\* has raised the matching failure, polls no more and fetches no result; a job
\* that reached any terminal status is never polled again, and polling stops
\* (short of an exception of the HTTP call) only on a terminal status.
C6_TerminalStopsPolling ==
  \A r \in Reqs :
    IsJob(r) =>
      /\ req[r].terminal_at # 0 => req[r].poll_count = req[r].terminal_at
      /\ (req[r].terminal_at # 0 /\ req[r].status # SuccessStatus) =>
            /\ Done(r) /\ ~ req[r].fetched
            /\ req[r].raised = req[r].status
            /\ req[r].resp =
                 (IF svc = "stt"
                  THEN HTTPException(500, "Rev.ai transcription failed")
                  ELSE IF req[r].status = "failed"
                  THEN HTTPException(500, "TTS failed: error")
                  ELSE HTTPException(500, "TTS prediction was canceled"))
      /\ (Done(r) /\ req[r].raised # "exception") =>
            req[r].status \in (IF svc = "tts" THEN {"succeeded", "failed", "canceled"}
                               ELSE {"transcribed", "failed"})

C6_Witness ==
  \E r \in Reqs :
    /\ Done(r) /\ req[r].status = "failed" /\ req[r].pending > 0
    /\ req[r].poll_count = req[r].pending + 1

\* the identifier as configured (the default when the variable is unset)
RawName ==
  IF svc = "tts" THEN getenv(env, "TTS_PROVIDER", <<"p", "i", "p", "e", "r">>)
  ELSE getenv(env, "STT_PROVIDER", <<"g", "r", "o", "q">>)

SameIgnoringCase(a, b) ==
  /\ Len(a) = Len(b)
  /\ \A i \in 1..Len(a) :
       \/ a[i] = b[i]
       \/ \E j \in 1..Len(UpperLetters) :
            {a[i], b[i]} = {UpperLetters[j], LowerLetters[j]}

Registry ==
  IF svc = "tts" THEN {s_piper, s_kokoro} ELSE {s_groq, s_revai, s_deepgram}

Registered == {k \in Registry : SameIgnoringCase(RawName, k)}

ClassOf(k) ==
  CASE k = s_piper -> "PiperProvider"
    [] k = s_kokoro -> "ReplicateKokoroProvider"
    [] k = s_groq -> "GroqProvider"
    [] k = s_revai -> "RevAIProvider"
    [] k = s_deepgram -> "DeepgramProvider"

Contains(text, part) ==
  \E i \in 0..(Len(text) - Len(part)) : SubSeq(text, i + 1, i + Len(part)) = part

\* C7: after startup, a configured identifier that matches no registry key,
\* letter case ignored, has made selection fail with the "Unknown ... provider"
\* ValueError whose message lists every registry key, and no provider is
\* active; an identifier that matches a key up to letter case has selected that
\* key's provider class (which is active, or was found not configured).
C7_UnknownProviderRejected ==
  started =>
    IF Registered = {}
    THEN /\ provider = NoProvider
         /\ Len(logged) = 1
         /\ logged[1].type = "ValueError"
         /\ logged[1].text \in
              {"Unknown TTS provider: {provider_name}. Available: {available}",
               "Unknown STT provider: {provider_name}. Available: {available}"}
         /\ \A k \in Registry : Contains(logged[1].available, k)
    ELSE \A k \in Registered :
           \/ provider.cls = ClassOf(k)
           \/ /\ provider = NoProvider
              /\ Len(logged) = 1
              /\ logged[1].provider_name = k
              /\ logged[1].text \in
                   {"TTS provider '{provider_name}' is not configured. Check requirements.",
                    "STT provider '{provider_name}' is not configured. Check API key."}

C7_Witness ==
  /\ started /\ svc = "stt" /\ RawName = s_piper
  /\ provider = NoProvider /\ Len(logged) = 1
  /\ logged[1].available = <<"g","r","o","q",","," ","r","e","v","a","i",","," ",
                             "d","e","e","p","g","r","a","m">>
  /\ \E r \in Reqs : Done(r)

\* whether the registered backend k lacks what it needs: its credential is
\* unset or empty, or (Piper) the executable is not found
Lacking(k) ==
  CASE k = s_piper -> whichPiper # "found"
    [] k = s_kokoro -> env["REPLICATE_API_TOKEN"] = None \/ Len(env["REPLICATE_API_TOKEN"]) = 0
    [] k = s_groq -> env["GROQ_API_KEY"] = None \/ Len(env["GROQ_API_KEY"]) = 0
    [] k = s_revai -> env["REV_AI_ACCESS_TOKEN"] = None \/ Len(env["REV_AI_ACCESS_TOKEN"]) = 0
    [] k = s_deepgram -> env["DEEPGRAM_API_KEY"] = None \/ Len(env["DEEPGRAM_API_KEY"]) = 0

\* C8: after startup with a registered identifier, a backend whose credential
\* is missing or empty (Piper: whose executable is not found) has made selection
\* fail with the "not configured" ValueError and no provider is active; a
\* provider is active only if it is configured.
C8_UnconfiguredProviderRejected ==
  started =>
    /\ \A k \in Registered :
         IF Lacking(k)
         THEN /\ provider = NoProvider
              /\ Len(logged) = 1
              /\ logged[1].type = "ValueError"
              /\ logged[1].provider_name = k
              /\ logged[1].text \in
                   {"TTS provider '{provider_name}' is not configured. Check requirements.",
                    "STT provider '{provider_name}' is not configured. Check API key."}
         ELSE provider.cls = ClassOf(k) /\ logged = <<>>
    /\ provider # NoProvider =>
         /\ is_configured(provider, whichPiper)
         /\ \E k \in Registered : provider.cls = ClassOf(k) /\ ~ Lacking(k)

C8_Witness ==
  /\ started /\ svc = "stt" /\ RawName = s_RevAI
  /\ env["REV_AI_ACCESS_TOKEN"] = <<>> /\ env["GROQ_API_KEY"] = s_tok
  /\ provider = NoProvider /\ Len(logged) = 1
  /\ \E r \in Reqs : Done(r)

OpenAIVoices ==
  { <<"a","l","l","o","y">>, <<"e","c","h","o">>, <<"f","a","b","l","e">>,
    <<"o","n","y","x">>, <<"n","o","v","a">>, <<"s","h","i","m","m","e","r">> }

\* the table key a requested voice names, lower case compared
KeyOf(v) == {k \in OpenAIVoices : SameIgnoringCase(v, k)}

KokoroTable(k) ==
  CASE k = <<"a","l","l","o","y">> -> <<"a","f","_","a","l","l","o","y">>
    [] k = <<"e","c","h","o">> -> <<"a","m","_","e","c","h","o">>
    [] k = <<"f","a","b","l","e">> -> <<"b","f","_","e","m","m","a">>
    [] k = <<"o","n","y","x">> -> <<"a","m","_","o","n","y","x">>
    [] k = <<"n","o","v","a">> -> <<"a","f","_","n","o","v","a">>
    [] k = <<"s","h","i","m","m","e","r">> -> <<"a","f","_","b","e","l","l","a">>

IsSpeechCall(r) == req[r].kind = "speech" /\ req[r].called

\* C9 as stated: a voice that is a key of the table is replaced by the mapped
\* id; a voice that is no key is passed unchanged by Piper and replaced by the
\* configured default voice by Kokoro.
C9_UnmappedVoiceDefaulted ==
  \A r \in Reqs :
    IsSpeechCall(r) =>
      LET v == req[r].voice
          used == req[r].backend_voice
      IN IF provider.cls = "PiperProvider"
         THEN IF KeyOf(v) # {} THEN used = s_en_US_lessac_medium ELSE used = v
         ELSE IF KeyOf(v) # {} THEN \A k \in KeyOf(v) : used = KokoroTable(k)
              ELSE used = provider.default_voice

\* C9: a voice that is a key of the table is replaced by the mapped id; a
\* voice that is no key is passed unchanged by Piper; Kokoro passes a voice
\* that is no key unchanged when it is one of its known voices and uses the
\* configured default voice otherwise, so what it sends is a known voice or
\* the default, and synthesis goes on to the submission.
C9_VoiceMapping ==
  \A r \in Reqs :
    IsSpeechCall(r) =>
      LET v == req[r].voice
          used == req[r].backend_voice
      IN IF provider.cls = "PiperProvider"
         THEN IF KeyOf(v) # {} THEN used = s_en_US_lessac_medium ELSE used = v
         ELSE /\ IF KeyOf(v) # {} THEN \A k \in KeyOf(v) : used = KokoroTable(k)
                 ELSE IF \E i \in 1..Len(available_voices) : available_voices[i] = v
                 THEN used = v
                 ELSE used = provider.default_voice
              /\ \/ \E i \in 1..Len(available_voices) : available_voices[i] = used
                 \/ used = provider.default_voice
              /\ req[r].pc = "submit" \/ req[r].upstream.status_code # 0
                   \/ req[r].raised = "exception"

C9_Witness ==
  /\ provider.cls = "ReplicateKokoroProvider"
  /\ provider.default_voice = s_bm_george
  /\ IsSpeechCall(1) /\ req[1].voice = s_af_heart
  /\ req[1].backend_voice = s_af_heart
  /\ Done(1) /\ req[1].resp.status_code = 200

\* C10: a request whose provider operation failed is answered with the
\* backend's status code and body when the backend refused the submission
\* (non-201 for Kokoro, non-200 for Groq, Deepgram, Rev.ai), with 500 for
\* every other failure, and never with a success (2xx) status.
C10_ProviderFailureIsErrorResponse ==
  \A r \in Reqs :
    (Done(r) /\ req[r].called /\ req[r].raised # "none") =>
      /\ req[r].raised = "upstream" =>
            /\ req[r].resp.status_code = req[r].upstream.status_code
            /\ req[r].resp.detail = req[r].upstream.text
      /\ req[r].raised # "upstream" => req[r].resp.status_code = 500
      /\ req[r].resp.status_code \notin 200..299

----------------------------------------------------------------------------
(* Rev.ai transcripts of many shapes, one transcription request *)

MaxMonologues == 2
MaxElements == 2

Elements == {El("text", s_foo), El("text", s_Hello), El("punct", <<".">>)}

RECURSIVE SeqsUpTo(_, _)
SeqsUpTo(S, n) ==
  IF n = 0 THEN {<<>>}
  ELSE SeqsUpTo(S, n - 1)
       \cup {Append(x, e) : x \in SeqsUpTo(S, n - 1), e \in S}

TranscriptInputs ==
  SeqsUpTo(SeqsUpTo(Elements, MaxElements), MaxMonologues) \cup Transcripts

TranscriptSttEnvs ==
  {EnvOf("stt", s_revai, [REV_AI_ACCESS_TOKEN |-> s_tok])}

InitTranscript == InitWith({"stt"}, {}, TranscriptSttEnvs, {"notfound"}, {{}})

NextTranscript ==
  \/ startup
  \/ create_transcription(1)
  \/ \E b \in BackendResponses : revai_post_response(1, b)
  \/ \E st \in RevaiStatuses : revai_poll_response(1, st)
  \/ sleep_done(1)
  \/ /\ req[1].pc = "transcript"
     /\ \E m \in TranscriptInputs : revai_transcript_response(1, m)
  \/ await_raises(1)

SpecTranscript == InitTranscript /\ [][NextTranscript]_vars

\* the places <<monologue, element>> of a transcript that hold a text element
TextPlaces(m) ==
  UNION { {<<i, j>> : j \in {k \in 1..Len(m[i]) : m[i][k].type = "text"}} :
          i \in 1..Len(m) }

Before(a, b) == a[1] < b[1] \/ (a[1] = b[1] /\ a[2] < b[2])

RECURSIVE TotalLen(_, _)
TotalLen(m, places) ==
  IF places = {} THEN 0
  ELSE LET pl == CHOOSE x \in places : TRUE
       IN Len(m[pl[1]][pl[2]].value) + 1 + TotalLen(m, places \ {pl})

\* C11: the text answered for a Rev.ai transcript is made of the values of
\* its elements of type "text", in monologue order and then element order,
\* each pair of neighbours separated by exactly one space, elements of other
\* types skipped; a transcript without text elements gives the empty string.
C11_TranscriptText ==
  \A r \in Reqs :
    (req[r].kind = "transcription" /\ req[r].fetched /\ Done(r)) =>
      LET m == req[r].transcript
          text == req[r].resp.text
          places == TextPlaces(m)
          start(pl) == TotalLen(m, {q \in places : Before(q, pl)})
      IN /\ Len(text) = IF places = {} THEN 0 ELSE TotalLen(m, places) - 1
         /\ \A pl \in places :
              /\ SubSeq(text, start(pl) + 1, start(pl) + Len(m[pl[1]][pl[2]].value))
                   = m[pl[1]][pl[2]].value
              /\ start(pl) > 0 => text[start(pl)] = " "

C11_Witness ==
  /\ Done(1) /\ req[1].fetched
  /\ req[1].transcript =
       << <<El("text", s_Hello), El("punct", <<" ">>), El("text", s_world)>>,
          <<El("text", s_foo), El("text", s_bar)>> >>
  /\ req[1].resp.text = <<"H","e","l","l","o"," ","w","o","r","l","d"," ",
                          "f","o","o"," ","b","a","r">>

IsListing(r) == req[r].kind = "providers" /\ Done(r)

\* the listing answered to request r is complete and current
ListingComplete(r) ==
  LET body == req[r].resp.body
  IN /\ DOMAIN body.available = Registry
     /\ \A k \in Registry : body.available[k].configured = ~ Lacking(k)
     /\ \A k \in Registry :
          body.available[k].name[1] =
            (CASE k = s_piper -> "Piper"
               [] k = s_kokoro -> "Replicate Kokoro"
               [] k = s_groq -> "Groq"
               [] k = s_revai -> "Rev.ai"
               [] k = s_deepgram -> "Deepgram")
     /\ provider = NoProvider => body.current = None
     /\ provider # NoProvider =>
          /\ body.current # None
          /\ \E k \in Registry :
               /\ provider.cls = ClassOf(k)
               /\ body.current = body.available[k].name

\* C12: in either service, with no provider or any one provider active, a
\* provider listing has one entry for every registry identifier, each with
\* that backend's configured status, and its "current" field names the active
\* provider or is none; and the step that answers a listing leaves the active
\* provider as it was.
C12_ListingReportsEveryBackend ==
  /\ [](\A r \in Reqs : IsListing(r) => ListingComplete(r))
  /\ [][\A r \in Reqs :
          (req[r].pc = "idle" /\ req'[r].kind = "providers") =>
             provider' = provider /\ started' = started]_vars

C12_Witness ==
  /\ svc = "stt" /\ provider.cls = "RevAIProvider"
  /\ \E r \in Reqs :
       /\ IsListing(r)
       /\ ~ req[r].resp.body.available[s_groq].configured
       /\ req[r].resp.body.available[s_revai].configured
       /\ req[r].resp.body.available[s_deepgram].configured
       /\ req[r].resp.body.current = <<"Rev.ai">>

\* what a handler that reads the module-level provider reports as its name
SeenName == IF provider = NoProvider THEN None ELSE name(provider)

\* C13: the active provider changes only in the startup step, which runs
\* once; no handler step of any request, in any interleaving, changes it, no
\* request is handled before startup, and what each answered request saw of
\* the provider is the provider as it still is.
C13_ProviderSetOnceAtStartup ==
  /\ [][provider' # provider => (~ started /\ started')]_vars
  /\ [][started => started']_vars
  /\ [](\A r \in Reqs : req[r].pc # "idle" => started)
  /\ [](\A r \in Reqs :
          /\ (Done(r) /\ req[r].kind = "health") =>
                req[r].resp.body.provider = SeenName
          /\ (Done(r) /\ req[r].kind = "providers") =>
                req[r].resp.body.current = SeenName
          /\ (Done(r) /\ req[r].kind = "voices") =>
                req[r].resp.body.provider = SeenName
          /\ (Done(r) /\ req[r].kind = "models" /\ provider # NoProvider) =>
                req[r].resp.body.data[1].owned_by = SeenName
          /\ (IsDelegating(r) /\ req[r].called) => provider # NoProvider
          /\ (IsDelegating(r) /\ ~ req[r].called /\ Done(r)
                /\ req[r].resp.status_code = 500) => provider = NoProvider)

C13_Witness ==
  /\ provider.cls = "ReplicateKokoroProvider"
  /\ req[1].kind = "speech" /\ req[1].pc = "sleep"
  /\ req[2].kind = "health" /\ Done(2)
  /\ req[2].resp.body.provider = <<"Replicate Kokoro", s_af_bella>>

\* the positions at which a request waits on provider I/O: the piper
\* subprocess, an outbound HTTP call, or the sleep between two polls
WaitingOnProvider(r) ==
  req[r].pc \in {"communicate", "submit", "poll", "sleep", "download",
                 "transcript"}

\* C14: while one request waits on provider I/O, every other request of the
\* service can take its next step: no request's wait keeps the event loop
\* from running another request's handler.
C14_WaitingDoesNotBlockOthers ==
  \A r \in Reqs : \A q \in Reqs \ {r} :
     (started /\ WaitingOnProvider(r)) => CanRun(q)

====
